---- MODULE Spec2Model ----
(***************************************************************************)
(* A model of the retrieval-augmented chat service: the process-wide       *)
(* session_histories map and the chat / chat_stream / clear_session        *)
(* coroutines of app/rag_pipeline.py, the SSE token_generator of api.py,   *)
(* and the destructive re-index of app/ingest.py.                          *)
(*                                                                         *)
(* Python list objects are modelled as a heap: session_histories maps a    *)
(* session id to a list id, a call's local `chat_history` holds a list id, *)
(* and `lists` holds the contents of every list object, reachable from the *)
(* map or not.  Every action is one run of a coroutine between two         *)
(* suspension points (asyncio runs one coroutine at a time).               *)
(***************************************************************************)
EXTENDS Integers, Sequences, FiniteSets, TLC

\* ------------------------------------------------------------------ bounds
MaxCalls == 2
MaxFrags == 2
MaxIngests == 2
MaxChunks == 2

Calls == 1..MaxCalls
Ingests == 1..MaxIngests
Sessions == {"s1", "s2"}
Questions == {"q1", "q2"}
\* Contents of the chunks the model streams; the empty content occurs
\* (chat_stream tests `if token`).
Tokens == {"", "a", "b"}
ErrorMsgs == {"boom"}
None == "None"

\* ------------------------------------------------------------ pure helpers
RECURSIVE Concat(_)
\* "".join(seq): the concatenation of a sequence of strings.
Concat(seq) == IF seq = <<>> THEN "" ELSE Head(seq) \o Concat(Tail(seq))

RECURSIVE JoinBlank(_)
\* "\n\n".join(seq)
JoinBlank(seq) ==
  IF seq = <<>> THEN ""
  ELSE IF Len(seq) = 1 THEN Head(seq)
  ELSE Head(seq) \o "\n\n" \o JoinBlank(Tail(seq))

SeqsUpTo(S, n) == UNION {[1..k -> S] : k \in 0..n}

\* The replies the generation model can give: a finite sequence of chunks.
Responses == SeqsUpTo(Tokens, MaxFrags)

HumanMessage(text) == [role |-> "human", content |-> text]
AIMessage(text) == [role |-> "ai", content |-> text]
SystemMessage(text) == [role |-> "system", content |-> text]

SystemText == "Answer questions based ONLY on the context below. Context:\n"

\* A prompt template that lost its chat_history placeholder.
PromptMessages_NoHistory(ctx, history, q) ==
  <<SystemMessage(SystemText \o ctx), HumanMessage(q)>>

\* prompt: system instruction with the context, the chat_history placeholder,
\* then the current question.
PromptMessages(ctx, history, q) ==
  <<SystemMessage(SystemText \o ctx)>> \o history \o <<HumanMessage(q)>>

\* The two appends in the wrong order.
TurnMessages_Swapped(q, a) == <<AIMessage(a), HumanMessage(q)>>

\* The two appends that follow generation.
TurnMessages(q, a) == <<HumanMessage(q), AIMessage(a)>>

\* ------------------------------------------------------------------- state
VARIABLES
  session_histories,  \* dict: session id -> list id
  lists,              \* heap: list id -> sequence of messages
  collection,         \* the vector store collection
  pc,                 \* per call: where the coroutine is suspended
  kind,               \* per call: "chat" or "chat_stream"
  session_id,         \* per call: argument
  question,           \* per call: argument
  chat_history,       \* per call: the list id held by the local variable
  context,            \* per call: local variable
  prompt,             \* per call: the messages handed to the model
  pos,                \* per call: chunks of the model's stream consumed, plus one
  full_answer,        \* per call: `answer` / `full_answer`
  events,             \* per call: what token_generator has yielded
  ipc,                \* per ingest_pdf call: where it is suspended
  idoc,               \* per ingest_pdf call: the document at pdf_path
  iadded,             \* per ingest_pdf call: chunks upserted so far
  reply,              \* per call: the chunks the model sends for its prompt
  hits,               \* the limiter: <<endpoint, key>> -> hits in the window
  nreq,               \* requests received
  last,               \* the last request: endpoint, key sent, status raised
  files,              \* the paths that exist in UPLOAD_DIR
  ipath               \* per ingest_pdf call: its pdf_path

vars == <<session_histories, lists, collection, pc, kind, session_id,
          question, chat_history, context, prompt, pos, full_answer,
          events, ipc, idoc, iadded, reply, hits, nreq, last, files, ipath>>

gatewayVars == <<hits, nreq, last, files, ipath>>
\* What the conversation and indexing actions do not mention: a specification
\* of them alone leaves it unchanged.
extVars == <<reply, gatewayVars>>

indexVars == <<collection, ipc, idoc, iadded>>

callLocals == <<kind, session_id, question, chat_history, context, prompt,
                pos, full_answer, events>>

\* ---------------------------------------------------------- vector store
Docs == {"A", "B"}
\* Documents differ in length: document d splits into NChunks(d) chunks.
NChunks(d) == IF d = "A" THEN 1 ELSE MaxChunks
\* A point of the collection: <<document, chunk index, the ingest that wrote it>>
\* (every add gives its points fresh ids).
ChunksOf(d, by) == {<<d, i, by>> : i \in 1..NChunks(d)}
PageContent(ch) == ch[1] \o ToString(ch[2])
NoCollection == [exists |-> FALSE, points |-> {}]
K == 4

Min(a, b) == IF a < b THEN a ELSE b

\* ------------------------------------------------------ requests, limiter
MaxRequests == 3
\* os.getenv("API_KEY")
API_KEY == "secret"
\* The PDF-CHAT-API-KEY header of a request: absent, empty, right, wrong.
AuthHeaders == {None, "", "secret", "guess"}
\* The x-api-key header of a request (absent or a value) and its client host.
XKeys == {None, "x1"}
Hosts == {"h1"}
Requests == [key : AuthHeaders, xkey : XKeys, host : Hosts]
Endpoints == {"ingest", "chat", "chat_stream", "delete_session"}

\* get_api_key: request.headers.get("x-api-key", request.client.host)
get_api_key(req) == IF req.xkey # None THEN req.xkey ELSE req.host

RateKeys == (XKeys \ {None}) \cup Hosts
Buckets == Endpoints \X RateKeys

\* @limiter.limit("5/minute"), ("30/minute"), ("20/minute"), ("20/minute")
Limit(ep) ==
  CASE ep = "ingest" -> 5
    [] ep = "chat" -> 30
    [] ep = "chat_stream" -> 20
    [] ep = "delete_session" -> 20

NoHits == [b \in Buckets |-> 0]

\* as_retriever(search_kwargs={"k": 4}): the K nearest points, in rank order;
\* the ranking is the vector store's.
Rankings(points) ==
  {r \in [1..Min(K, Cardinality(points)) -> points] :
     \A i, j \in DOMAIN r : i # j => r[i] # r[j]}

InitCore ==
  /\ session_histories = [s \in {} |-> 0]
  /\ lists = [l \in Calls |-> <<>>]
  /\ collection \in {NoCollection, [exists |-> TRUE, points |-> ChunksOf("A", 0)]}
  /\ pc = [c \in Calls |-> "idle"]
  /\ kind = [c \in Calls |-> None]
  /\ session_id = [c \in Calls |-> None]
  /\ question = [c \in Calls |-> None]
  /\ chat_history = [c \in Calls |-> 0]
  /\ context = [c \in Calls |-> ""]
  /\ prompt = [c \in Calls |-> <<>>]
  /\ pos = [c \in Calls |-> 1]
  /\ full_answer = [c \in Calls |-> ""]
  /\ events = [c \in Calls |-> <<>>]
  /\ ipc = [i \in Ingests |-> "idle"]
  /\ idoc = [i \in Ingests |-> None]
  /\ iadded = [i \in Ingests |-> 0]
  /\ reply = [c \in Calls |-> <<>>]
  /\ nreq = 0
  /\ last = [endpoint |-> None, key |-> None, raised |-> 0]
  /\ files = {}
  /\ ipath = [i \in Ingests |-> 0]

Init == InitCore /\ hits = NoHits

\* A rate-limit window in which the client sending x-api-key "x1" has already
\* been admitted one short of each endpoint's limit, by requests that left
\* nothing else behind (blank questions, rejected uploads, deletes of absent
\* sessions).
InitWindow ==
  /\ InitCore
  /\ hits = [b \in Buckets |-> IF b[2] = "x1" THEN Limit(b[1]) - 1 ELSE 0]

\* ------------------------------------------------- the Conversation Store
\* `if session_id not in session_histories: session_histories[session_id] = []`
\* where the fresh list object gets the id `fresh`.
EnsureSession(sh, s, fresh) ==
  IF s \in DOMAIN sh THEN sh
  ELSE [x \in DOMAIN sh \cup {s} |-> IF x = s THEN fresh ELSE sh[x]]

\* session_histories.clear() in place of the del of one key.
clear_session_All(sh, s) ==
  [store |-> [x \in {} |-> 0], raised |-> None]

\* clear_session without its membership test: `del` of an absent key raises.
clear_session_NoGuard(sh, s) ==
  IF s \in DOMAIN sh
  THEN [store |-> [x \in DOMAIN sh \ {s} |-> sh[x]], raised |-> None]
  ELSE [store |-> sh, raised |-> "KeyError"]

\* clear_session: the store it leaves and the exception it raises.
clear_session(sh, s) ==
  IF s \in DOMAIN sh
  THEN [store |-> [x \in DOMAIN sh \ {s} |-> sh[x]], raised |-> None]
  ELSE [store |-> sh, raised |-> None]

\* A read-modify-write of the history: the list is rebuilt from the messages
\* read when the prompt was formatted.
AppendTurn_Stale(heap, c, a) ==
  [heap EXCEPT ![chat_history[c]] =
     SubSeq(prompt[c], 2, Len(prompt[c]) - 1) \o TurnMessages(question[c], a)]

\* The list looked up in the store again when the Turn is appended.
AppendTurn_ViaStore(heap, c, a) ==
  LET l == IF session_id[c] \in DOMAIN session_histories
           THEN session_histories[session_id[c]] ELSE chat_history[c]
  IN  [heap EXCEPT ![l] = @ \o TurnMessages(question[c], a)]

\* The Turn inserted at the front of the list.
AppendTurn_Front(heap, c, a) ==
  [heap EXCEPT ![chat_history[c]] = TurnMessages(question[c], a) \o @]

\* chat_history.append(HumanMessage(...)); chat_history.append(AIMessage(...)):
\* both appends run without a suspension between them, on the list object the
\* call took its reference to when it started.
AppendTurn(heap, c, a) ==
  [heap EXCEPT ![chat_history[c]] = @ \o TurnMessages(question[c], a)]

\* The appends moved into a finally clause: what was accumulated is committed.
ListsOnRaise_CommitPartial(heap, c) ==
  [heap EXCEPT ![chat_history[c]] =
     @ \o TurnMessages(question[c], full_answer[c])]

\* The question appended before generation, the answer after it.
ListsOnRaise_LoneQuestion(heap, c) ==
  [heap EXCEPT ![chat_history[c]] = Append(@, HumanMessage(question[c]))]

\* An exception that leaves chat / chat_stream from an await: no handler in
\* the coroutine touches the list.
ListsOnRaise(heap, c) == heap

\* The history a reader of session s sees: session_histories.get(s, []).
History(s) ==
  IF s \in DOMAIN session_histories THEN lists[session_histories[s]] ELSE <<>>

\* --------------------------------------------------------- SSE formatting
TokenEvent(token) == "data: " \o token \o "\n\n"
ErrorEvent(msg) == "data: [ERROR] " \o msg \o "\n\n"
DoneEvent == "data: [DONE]\n\n"

\* token_generator with the sentinel after the loop instead of in a finally.
EventsOnError_NoFinally(msg) == <<ErrorEvent(msg)>>

\* token_generator when chat_stream raises an Exception: the except clause
\* yields the error event, the finally clause yields the sentinel.
EventsOnError(msg) == <<ErrorEvent(msg), DoneEvent>>
\* token_generator when chat_stream is exhausted: the finally clause.
EventsOnEnd == <<DoneEvent>>

\* ------------------------------------------------------------------ calls
InFlight(c) == pc[c] \in {"retrieving", "generating", "yielded"}
Finished(c) == pc[c] \in {"done", "failed", "cancelled"}
\* Calls are numbered in the order they start.
NextToStart(c) == pc[c] = "idle" /\ \A d \in Calls : d < c => pc[d] # "idle"

\* chat / chat_stream up to `await retriever.ainvoke(question)`.
Begin(c, k, s, q) ==
  /\ NextToStart(c)
  /\ session_histories' = EnsureSession(session_histories, s, c)
  /\ chat_history' = [chat_history EXCEPT ![c] = session_histories'[s]]
  /\ kind' = [kind EXCEPT ![c] = k]
  /\ session_id' = [session_id EXCEPT ![c] = s]
  /\ question' = [question EXCEPT ![c] = q]
  /\ pc' = [pc EXCEPT ![c] = "retrieving"]
  /\ UNCHANGED <<lists, indexVars, context, prompt, pos,
                 full_answer, events>>

ChatBegin(c) ==
  \E s \in Sessions, q \in Questions : Begin(c, "chat", s, q)

ChatStreamBegin(c) ==
  \E s \in Sessions, q \in Questions : Begin(c, "chat_stream", s, q)

\* The retriever answers: the context is joined, the prompt is formatted from
\* the list as it is now, and the request goes to the model.
RetrieveDone(c) ==
  /\ pc[c] = "retrieving"
  /\ collection.exists
  /\ \E docs \in Rankings(collection.points) :
       /\ context' = [context EXCEPT ![c] =
            JoinBlank([i \in DOMAIN docs |-> PageContent(docs[i])])]
       /\ prompt' = [prompt EXCEPT ![c] =
            PromptMessages(context'[c], lists[chat_history[c]], question[c])]
  /\ pc' = [pc EXCEPT ![c] = "generating"]
  /\ UNCHANGED <<session_histories, lists, indexVars, kind,
                 session_id, question, chat_history, pos, full_answer, events>>

\* chat: retriever.ainvoke or chain.ainvoke raises.
ChatFail(c) ==
  /\ kind[c] = "chat"
  /\ pc[c] \in {"retrieving", "generating"}
  /\ lists' = ListsOnRaise(lists, c)
  /\ pc' = [pc EXCEPT ![c] = "failed"]
  /\ UNCHANGED <<session_histories, indexVars, callLocals>>

\* chat: the model's reply r arrives whole; its content is the answer.
ChatDoneWith(c, r) ==
  /\ kind[c] = "chat"
  /\ pc[c] = "generating"
  /\ full_answer' = [full_answer EXCEPT ![c] = Concat(r)]
  /\ lists' = AppendTurn(lists, c, full_answer'[c])
  /\ pc' = [pc EXCEPT ![c] = "done"]
  /\ UNCHANGED <<session_histories, indexVars, kind, session_id,
                 question, chat_history, context, prompt, pos,
                 events>>

ChatDone(c) == \E r \in Responses : ChatDoneWith(c, r)

\* The chunk replaces what was accumulated.
Accumulate_Overwrite(acc, token) == token

\* The chunk is put in front of what was accumulated.
Accumulate_Prepend(acc, token) == token \o acc

\* full_answer += token
Accumulate(acc, token) == acc \o token

\* chat_stream: the next chunk arrives with content token; a non-empty one
\* is accumulated and yielded, through token_generator, to the response.
StreamChunkWith(c, token) ==
  /\ kind[c] = "chat_stream"
  /\ pc[c] = "generating"
  /\ pos[c] <= MaxFrags
  /\ IF token # ""
     THEN /\ full_answer' = [full_answer EXCEPT ![c] = Accumulate(@, token)]
          /\ events' = [events EXCEPT ![c] = Append(@, TokenEvent(token))]
          /\ pc' = [pc EXCEPT ![c] = "yielded"]
     ELSE UNCHANGED <<full_answer, events, pc>>
  /\ pos' = [pos EXCEPT ![c] = @ + 1]
  /\ UNCHANGED <<session_histories, lists, indexVars, kind,
                 session_id, question, chat_history, context, prompt>>

StreamChunk(c) == \E token \in Tokens : StreamChunkWith(c, token)

\* chat_stream: the consumer asks for the next event.
StreamResume(c) ==
  /\ pc[c] = "yielded"
  /\ pc' = [pc EXCEPT ![c] = "generating"]
  /\ UNCHANGED <<session_histories, lists, indexVars, callLocals>>

\* chat_stream: the model's stream ends; the Turn is appended and
\* token_generator yields the sentinel.
StreamEnd(c) ==
  /\ kind[c] = "chat_stream"
  /\ pc[c] = "generating"
  /\ lists' = AppendTurn(lists, c, full_answer[c])
  /\ events' = [events EXCEPT ![c] = @ \o EventsOnEnd]
  /\ pc' = [pc EXCEPT ![c] = "done"]
  /\ UNCHANGED <<session_histories, indexVars, kind, session_id,
                 question, chat_history, context, prompt, pos,
                 full_answer>>

\* chat_stream: the retriever or the model's stream raises an Exception,
\* before the first chunk or after some.
StreamFail(c) ==
  /\ kind[c] = "chat_stream"
  /\ pc[c] \in {"retrieving", "generating"}
  /\ lists' = ListsOnRaise(lists, c)
  /\ \E msg \in ErrorMsgs :
       events' = [events EXCEPT ![c] = @ \o EventsOnError(msg)]
  /\ pc' = [pc EXCEPT ![c] = "failed"]
  /\ UNCHANGED <<session_histories, indexVars, kind, session_id,
                 question, chat_history, context, prompt, pos,
                 full_answer>>

\* The client of a stream goes away.  Suspended at an await, the task's
\* CancelledError passes the `except Exception` of token_generator and its
\* finally clause yields the sentinel to a response that no longer sends;
\* suspended at a yield, the generators are closed where they stand.
StreamCancel(c) ==
  /\ kind[c] = "chat_stream"
  /\ InFlight(c)
  /\ lists' = ListsOnRaise(lists, c)
  /\ events' = [events EXCEPT ![c] =
       IF pc[c] = "yielded" THEN @ ELSE @ \o EventsOnEnd]
  /\ pc' = [pc EXCEPT ![c] = "cancelled"]
  /\ UNCHANGED <<session_histories, indexVars, kind, session_id,
                 question, chat_history, context, prompt, pos,
                 full_answer>>

\* DELETE /session/{session_id}
ClearSession(s) ==
  /\ clear_session(session_histories, s).raised = None
  /\ session_histories' = clear_session(session_histories, s).store
  /\ UNCHANGED <<lists, indexVars, pc, callLocals>>

CallStep(c) ==
  \/ RetrieveDone(c) /\ UNCHANGED extVars
  \/ ChatFail(c) /\ UNCHANGED extVars
  \/ ChatDone(c) /\ UNCHANGED extVars
  \/ StreamChunk(c) /\ UNCHANGED extVars
  \/ StreamResume(c) /\ UNCHANGED extVars
  \/ StreamEnd(c) /\ UNCHANGED extVars
  \/ StreamFail(c) /\ UNCHANGED extVars
  \/ StreamCancel(c) /\ UNCHANGED extVars

\* Requests to /chat and /chat/stream, overlapping freely.
NextChat ==
  \/ \E c \in Calls : ChatBegin(c) /\ UNCHANGED extVars
  \/ \E c \in Calls : ChatStreamBegin(c) /\ UNCHANGED extVars
  \/ \E c \in Calls : CallStep(c)

SpecChat == Init /\ [][NextChat]_vars

\* ... and requests to DELETE /session/{session_id}.
Next ==
  \/ NextChat
  \/ \E s \in Sessions : ClearSession(s) /\ UNCHANGED extVars

Spec == Init /\ [][Next]_vars

\* Requests handled one after the other, and no session cleared.
NoneInFlight == \A d \in Calls : ~InFlight(d)

NextSeq ==
  \/ \E c \in Calls : NoneInFlight /\ ChatBegin(c) /\ UNCHANGED extVars
  \/ \E c \in Calls : NoneInFlight /\ ChatStreamBegin(c) /\ UNCHANGED extVars
  \/ \E c \in Calls : CallStep(c)

SpecSeq == Init /\ [][NextSeq]_vars

\* --------------------------------------------------------------- indexing
chatVars == <<session_histories, lists, pc, callLocals>>

\* The documents whose chunks the collection holds.
DocsIn(coll) == {p[1] : p \in coll.points}

\* `if client.collection_exists(...): client.delete_collection(...)` and
\* `client.create_collection(...)`: the collection as they leave it.
Recreated(coll) == [exists |-> TRUE, points |-> {}]

IngestNextToStart(i) ==
  ipc[i] = "idle" /\ \A j \in Ingests : j < i => ipc[j] # "idle"

\* ingest_pdf up to `await vector_store.aadd_documents(chunks)`: the blocking
\* client calls run without a suspension.
IngestBegin(i) ==
  /\ IngestNextToStart(i)
  /\ \E d \in Docs : idoc' = [idoc EXCEPT ![i] = d]
  /\ collection' = Recreated(collection)
  /\ ipc' = [ipc EXCEPT ![i] = "adding"]
  /\ UNCHANGED <<iadded, chatVars>>

\* loader.load() raises before the collection is touched.
IngestLoadFail(i) ==
  /\ IngestNextToStart(i)
  /\ \E d \in Docs : idoc' = [idoc EXCEPT ![i] = d]
  /\ ipc' = [ipc EXCEPT ![i] = "failed"]
  /\ UNCHANGED <<collection, iadded, chatVars>>

\* aadd_documents upserts the next chunk into the collection of that name.
IngestAdd(i) ==
  /\ ipc[i] = "adding"
  /\ iadded[i] < NChunks(idoc[i])
  /\ collection.exists
  /\ collection' = [collection EXCEPT
       !.points = @ \cup {<<idoc[i], iadded[i] + 1, i>>}]
  /\ iadded' = [iadded EXCEPT ![i] = @ + 1]
  /\ UNCHANGED <<ipc, idoc, chatVars>>

\* aadd_documents returns; ingest_pdf returns its result.
IngestDone(i) ==
  /\ ipc[i] = "adding"
  /\ iadded[i] = NChunks(idoc[i])
  /\ ipc' = [ipc EXCEPT ![i] = "done"]
  /\ UNCHANGED <<collection, idoc, iadded, chatVars>>

\* The embedding provider or the vector store raises during the add.
IngestFail(i) ==
  /\ ipc[i] = "adding"
  /\ ipc' = [ipc EXCEPT ![i] = "failed"]
  /\ UNCHANGED <<collection, idoc, iadded, chatVars>>

NextIngest ==
  \/ \E i \in Ingests : IngestBegin(i) /\ UNCHANGED extVars
  \/ \E i \in Ingests : IngestLoadFail(i) /\ UNCHANGED extVars
  \/ \E i \in Ingests : IngestAdd(i) /\ UNCHANGED extVars
  \/ \E i \in Ingests : IngestDone(i) /\ UNCHANGED extVars
  \/ \E i \in Ingests : IngestFail(i) /\ UNCHANGED extVars

SpecIngest == Init /\ [][NextIngest]_vars

\* ---------------------------------------------------- deterministic model
\* The same calls with a generation model that is a function of its prompt:
\* when the request goes out the reply is fixed, and equal prompts get equal
\* replies; chat receives its content whole, chat_stream chunk by chunk.
DetRetrieveDone(c) ==
  /\ RetrieveDone(c)
  /\ \E r \in Responses :
       /\ \A d \in Calls \ {c} : prompt[d] = prompt'[c] => r = reply[d]
       /\ reply' = [reply EXCEPT ![c] = r]

DetChatDone(c) ==
  /\ ChatDoneWith(c, reply[c])
  /\ UNCHANGED reply

DetStreamChunk(c) ==
  /\ pos[c] <= Len(reply[c])
  /\ StreamChunkWith(c, reply[c][pos[c]])
  /\ UNCHANGED reply

DetStreamEnd(c) ==
  /\ StreamEnd(c)
  /\ pos[c] > Len(reply[c])
  /\ UNCHANGED reply

NextDet ==
  \/ \E c \in Calls : ChatBegin(c) /\ UNCHANGED extVars
  \/ \E c \in Calls : ChatStreamBegin(c) /\ UNCHANGED extVars
  \/ \E c \in Calls : DetRetrieveDone(c) /\ UNCHANGED gatewayVars
  \/ \E c \in Calls : DetChatDone(c) /\ UNCHANGED gatewayVars
  \/ \E c \in Calls : DetStreamChunk(c) /\ UNCHANGED gatewayVars
  \/ \E c \in Calls : DetStreamEnd(c) /\ UNCHANGED gatewayVars
  \/ \E c \in Calls : StreamResume(c) /\ UNCHANGED extVars
  \/ \E c \in Calls : ChatFail(c) /\ UNCHANGED extVars
  \/ \E c \in Calls : StreamFail(c) /\ UNCHANGED extVars
  \/ \E c \in Calls : StreamCancel(c) /\ UNCHANGED extVars

SpecDet == Init /\ [][NextDet]_vars

\* -------------------------------------------------------- Request Gateway
\* The status an HTTPException carries is written as its number; 0 stands
\* for no exception raised.

\* The old copy of verify_api_key: only the configured key is looked at.
verify_api_key_ConfigOnly(api_key) == IF API_KEY \in {None, ""} THEN 401 ELSE 0

\* verify_api_key: `if not api_key` raises 401, `if api_key != os.getenv(...)`
\* raises 403.
verify_api_key(api_key) ==
  IF api_key \in {None, ""} THEN 401
  ELSE IF api_key # API_KEY THEN 403
  ELSE 0

\* The limiter's check for one request: the bucket is full.
Exceeded(h, ep, req) == h[<<ep, get_api_key(req)>>] >= Limit(ep)

\* The limiter counts the request in its bucket; past the limit the count
\* makes no difference and is not kept.
Hit(h, ep, req) ==
  [h EXCEPT ![<<ep, get_api_key(req)>>] = Min(@ + 1, Limit(ep) + 1)]

\* What is raised before the endpoint function is entered: the dependency
\* verify_api_key is resolved first, then the limiter's wrapper runs.
Admission(ep, req) ==
  IF verify_api_key(req.key) # 0 THEN verify_api_key(req.key)
  ELSE IF Exceeded(hits, ep, req) THEN 429
  ELSE 0

HitsAfter(ep, req) ==
  IF verify_api_key(req.key) # 0 THEN hits ELSE Hit(hits, ep, req)

\* str.strip() on the texts of the model: the blank ones become empty.
Strip(s) == IF s \in {"", " "} THEN "" ELSE s

Bodies == [session_id : Sessions \cup {" "}, question : Questions \cup {"", " "}]

\* chat_endpoint / chat_stream_endpoint: the checks before the orchestrator.
ValidateChat(body) ==
  IF Strip(body.question) = "" THEN 400
  ELSE IF Strip(body.session_id) = "" THEN 400
  ELSE 0

\* The orchestrator called before the request is checked.
Reaches_Regardless(st) == TRUE

\* A raise ends the request: what follows it in the handler runs only when
\* nothing was raised.
Reaches(st) == st = 0

\* POST /chat and POST /chat/stream up to the first await of chat /
\* chat_stream.
ChatRequest(k, req, body) ==
  LET adm == Admission(k, req)
      st == IF adm # 0 THEN adm ELSE ValidateChat(body)
  IN  /\ nreq < MaxRequests
      /\ nreq' = nreq + 1
      /\ hits' = HitsAfter(k, req)
      /\ last' = [endpoint |-> k, key |-> req.key, raised |-> st]
      /\ IF Reaches(st)
         THEN \E c \in Calls : Begin(c, k, body.session_id, body.question)
         ELSE UNCHANGED <<chatVars, indexVars>>
      /\ UNCHANGED <<reply, files, ipath>>

\* DELETE /session/{session_id}
DeleteRequest(req, s) ==
  LET st == Admission("delete_session", req)
  IN  /\ nreq < MaxRequests
      /\ nreq' = nreq + 1
      /\ hits' = HitsAfter("delete_session", req)
      /\ last' = [endpoint |-> "delete_session", key |-> req.key,
                  raised |-> st]
      /\ IF Reaches(st)
         THEN ClearSession(s)
         ELSE UNCHANGED <<chatVars, indexVars>>
      /\ UNCHANGED <<reply, files, ipath>>

\* ------------------------------------------------------------- uploads
MAX_FILE_SIZE == 50 * 1024 * 1024
ALLOWED_EXTENSIONS == {".pdf"}
Filenames == {"", "notes.txt", "paper.PDF"}
Sizes == {0, 1, MAX_FILE_SIZE, MAX_FILE_SIZE + 1}
Uploads == [filename : Filenames, size : Sizes]

\* os.path.splitext(file.filename)[1].lower()
Ext(name) ==
  CASE name = "notes.txt" -> ".txt"
    [] name = "paper.PDF" -> ".pdf"
    [] OTHER -> ""

validate_file(up) ==
  IF Strip(up.filename) = "" THEN 400
  ELSE IF Ext(up.filename) \notin ALLOWED_EXTENSIONS THEN 400
  ELSE 0

\* save_upload: the contents are read and checked, then written to the path.
save_upload(fs, up, path) ==
  IF up.filename = "" THEN [raised |-> 400, files |-> fs]
  ELSE IF up.size = 0 THEN [raised |-> 400, files |-> fs]
  ELSE IF up.size > MAX_FILE_SIZE THEN [raised |-> 400, files |-> fs]
  ELSE [raised |-> 0, files |-> fs \cup {path}]

\* cleanup_file: `if os.path.exists(path): os.remove(path)`
cleanup_file(fs, path) == fs \ {path}

\* The handler without its finally clause.
FilesOnExit_NoFinally(fs, path) == fs

\* The finally clause of the ingest handler.
FilesOnExit(fs, path) == cleanup_file(fs, path)

\* The except clause of the ingest handler, then its finally clause.
FilesOnException(fs, path) == FilesOnExit(cleanup_file(fs, path), path)

\* POST /ingest up to the first await of ingest_pdf, or to the exception
\* that ends it before. Every upload gets a fresh path (uuid4), here the
\* number of the request.
IngestRequest(req, up) ==
  LET adm == Admission("ingest", req)
      path == nreq + 1
      val == validate_file(up)
      saved == save_upload(files, up, path)
      st == IF adm # 0 THEN adm ELSE IF val # 0 THEN val ELSE saved.raised
  IN  /\ nreq < MaxRequests
      /\ nreq' = nreq + 1
      /\ hits' = HitsAfter("ingest", req)
      /\ UNCHANGED reply
      /\ IF Reaches(st)
         THEN \E i \in Ingests :
                /\ ipath' = [ipath EXCEPT ![i] = path]
                /\ \/ /\ IngestBegin(i)
                      /\ files' = saved.files
                      /\ last' = [endpoint |-> "ingest", key |-> req.key,
                                  raised |-> st]
                   \/ /\ IngestLoadFail(i)
                      /\ files' = FilesOnException(saved.files, path)
                      /\ last' = [endpoint |-> "ingest", key |-> req.key,
                                  raised |-> 500]
         ELSE /\ files' = IF adm = 0 /\ val = 0 THEN saved.files ELSE files
              /\ last' = [endpoint |-> "ingest", key |-> req.key,
                          raised |-> st]
              /\ UNCHANGED <<chatVars, indexVars, ipath>>

\* ingest_pdf is cancelled at its await (CancelledError is not an Exception).
IngestCancel(i) ==
  /\ ipc[i] = "adding"
  /\ ipc' = [ipc EXCEPT ![i] = "cancelled"]
  /\ UNCHANGED <<collection, idoc, iadded, chatVars>>

\* The ingest handler after `await ingest_pdf(save_path)`.
UploadAdd(i) == IngestAdd(i) /\ UNCHANGED extVars

UploadDone(i) ==
  /\ IngestDone(i)
  /\ files' = FilesOnExit(files, ipath[i])
  /\ UNCHANGED <<reply, hits, nreq, last, ipath>>

UploadFail(i) ==
  /\ IngestFail(i)
  /\ files' = FilesOnException(files, ipath[i])
  /\ UNCHANGED <<reply, hits, nreq, last, ipath>>

UploadCancel(i) ==
  /\ IngestCancel(i)
  /\ files' = FilesOnExit(files, ipath[i])
  /\ UNCHANGED <<reply, hits, nreq, last, ipath>>

NextUpload ==
  \/ \E req \in Requests, up \in Uploads : IngestRequest(req, up)
  \/ \E i \in Ingests : UploadAdd(i)
  \/ \E i \in Ingests : UploadDone(i)
  \/ \E i \in Ingests : UploadFail(i)
  \/ \E i \in Ingests : UploadCancel(i)

SpecUpload == Init /\ [][NextUpload]_vars

\* Every endpoint behind authentication and the limiter, within one
\* rate-limit window: the requests up to where their handlers first suspend.
NextAdmission ==
  \/ \E req \in Requests, body \in Bodies : ChatRequest("chat", req, body)
  \/ \E req \in Requests, body \in Bodies :
       ChatRequest("chat_stream", req, body)
  \/ \E req \in Requests, s \in Sessions : DeleteRequest(req, s)
  \/ \E req \in Requests, up \in Uploads : IngestRequest(req, up)

SpecAdmission == InitWindow /\ [][NextAdmission]_vars

\* The conversation endpoints behind authentication and the limiter, within
\* one rate-limit window; the calls admitted run to their completion.
NextGateway ==
  \/ \E req \in Requests, body \in Bodies : ChatRequest("chat", req, body)
  \/ \E req \in Requests, body \in Bodies :
       ChatRequest("chat_stream", req, body)
  \/ \E req \in Requests, s \in Sessions : DeleteRequest(req, s)
  \/ \E c \in Calls : RetrieveDone(c) /\ UNCHANGED extVars
  \/ \E c \in Calls : ChatDone(c) /\ UNCHANGED extVars
  \/ \E c \in Calls : StreamEnd(c) /\ UNCHANGED extVars

SpecGateway == InitWindow /\ [][NextGateway]_vars

\* ================================================================ claims
Answers == {Concat(r) : r \in Responses}
StreamCalls == {c \in Calls : kind[c] = "chat_stream"}
DoneOn(s) == {c \in Calls : session_id[c] = s /\ pc[c] = "done"}
DoneWith(l) == {c \in Calls : chat_history[c] = l /\ pc[c] = "done"}
\* The positions of the Turn (q, a) in a message list.
TurnsAt(h, q, a) ==
  {i \in 1..(Len(h) \div 2) :
     h[2 * i - 1] = HumanMessage(q) /\ h[2 * i] = AIMessage(a)}

RECURSIVE TurnsUpTo(_, _)
\* The Turns of the successful calls 1..n on session s, in call order.
TurnsUpTo(s, n) ==
  IF n = 0 THEN <<>>
  ELSE TurnsUpTo(s, n - 1) \o
       (IF session_id[n] = s /\ pc[n] = "done"
        THEN <<HumanMessage(question[n]), AIMessage(full_answer[n])>>
        ELSE <<>>)

\* C1: with chat and chat_stream calls overlapping on a session, once all of
\* them have finished the session's history holds exactly one Turn per call
\* that completed, each Turn a call's question with that call's own answer.
C1_NoLostOrMixedTurn ==
  \A s \in Sessions :
    (\A c \in Calls : session_id[c] = s => Finished(c)) =>
      /\ Len(History(s)) = 2 * Cardinality(DoneOn(s))
      /\ \A q \in Questions, a \in Answers :
           Cardinality(TurnsAt(History(s), q, a)) =
             Cardinality({c \in DoneOn(s) :
                            question[c] = q /\ full_answer[c] = a})

\* Two calls on one session overlapped: the later call completed first, and
\* both Turns are in the history.
C1_Witness ==
  /\ pc[1] = "done" /\ pc[2] = "done"
  /\ session_id[1] = session_id[2]
  /\ question[1] # question[2] /\ full_answer[1] # full_answer[2]
  /\ History(session_id[1]) =
       <<HumanMessage(question[2]), AIMessage(full_answer[2]),
         HumanMessage(question[1]), AIMessage(full_answer[1])>>

\* C2: whenever a chat or chat_stream call for session s completes, its Turn
\* is the last Turn of the history a reader of s sees right after, under
\* every interleaving, a clear_session(s) during the call included.
C2_TurnVisibleOnCompletion ==
  [][\A c \in Calls :
       (pc[c] # "done" /\ pc'[c] = "done") =>
         LET h == History(session_id[c])' IN
           /\ Len(h) >= 2
           /\ h[Len(h) - 1] = HumanMessage(question[c])
           /\ h[Len(h)] = AIMessage(full_answer'[c])]_vars

\* C3: a call that fails (chat at retrieval or generation, chat_stream before
\* the first fragment or after some) appends nothing: the step that fails
\* leaves every history as it was, and the list a failed call holds has only
\* the Turns of the calls that completed.
C3_FailedCallAppendsNothing ==
  /\ [][\A c \in Calls :
          (pc[c] # "failed" /\ pc'[c] = "failed") =>
            /\ lists' = lists
            /\ session_histories' = session_histories]_vars
  /\ [](\A c \in Calls :
          pc[c] = "failed" =>
            Len(lists[chat_history[c]]) =
              2 * Cardinality(DoneWith(chat_history[c])))

\* A stream failed after a fragment was forwarded, on a session where another
\* call completed: the history is that other call's Turn alone.
C3_Witness ==
  \E c, d \in Calls :
    /\ kind[c] = "chat_stream" /\ pc[c] = "failed" /\ full_answer[c] # ""
    /\ pc[d] = "done" /\ chat_history[d] = chat_history[c]
    /\ History(session_id[c]) =
         <<HumanMessage(question[d]), AIMessage(full_answer[d])>>

TokenEvents == {TokenEvent(tk) : tk \in Tokens \ {""}}
ErrorEvents == {ErrorEvent(m) : m \in ErrorMsgs}

\* C4: a /chat/stream response consumed to its end is token events, then one
\* error event exactly when chat_stream raised, then the sentinel, once and
\* last; while it runs, nothing but token events has been sent.
C4_EventStreamShape ==
  \A c \in StreamCalls :
    LET e == events[c]
        n == Len(e)
    IN /\ pc[c] \in {"retrieving", "generating", "yielded"} =>
            \A i \in 1..n : e[i] \in TokenEvents
       /\ pc[c] = "done" =>
            /\ n >= 1 /\ e[n] = DoneEvent
            /\ \A i \in 1..(n - 1) : e[i] \in TokenEvents
       /\ pc[c] = "failed" =>
            /\ n >= 2 /\ e[n] = DoneEvent /\ e[n - 1] \in ErrorEvents
            /\ \A i \in 1..(n - 2) : e[i] \in TokenEvents

\* A stream that failed after two fragments: tokens, the error, the sentinel.
C4_Witness ==
  \E c \in StreamCalls :
    /\ pc[c] = "failed"
    /\ events[c] = <<TokenEvent("a"), TokenEvent("b"), ErrorEvent("boom"),
                     DoneEvent>>

\* C5: when the consumer of a chat_stream call goes away, the step that
\* cancels the call leaves every list and the session map as they were, and
\* from then on the call forwards no fragment and takes no step (so never
\* reaches its appends).
C5_CancelledStreamAppendsNothing ==
  [][\A c \in Calls :
       /\ (pc[c] # "cancelled" /\ pc'[c] = "cancelled") =>
            /\ lists' = lists
            /\ session_histories' = session_histories
            /\ full_answer'[c] = full_answer[c]
            /\ \A i \in 1..Len(events'[c]) :
                 i > Len(events[c]) => events'[c][i] \notin TokenEvents
       /\ pc[c] = "cancelled" =>
            /\ pc'[c] = "cancelled"
            /\ events'[c] = events[c]
            /\ full_answer'[c] = full_answer[c]]_vars

\* A stream cancelled after a fragment was forwarded; its session's history
\* is empty.
C5_Witness ==
  \E c \in StreamCalls :
    /\ pc[c] = "cancelled" /\ full_answer[c] # ""
    /\ session_id[c] \in DOMAIN session_histories
    /\ session_histories[session_id[c]] = chat_history[c]
    /\ History(session_id[c]) = <<>>

\* C6: every stored history is a sequence of complete Turns: even length,
\* human then assistant, and each Turn is the question and answer of a call
\* on that list whose generation has completed.
C6_HistoriesAreWholeTurns ==
  \A l \in Calls :
    LET h == lists[l] IN
      /\ Len(h) % 2 = 0
      /\ \A i \in 1..Len(h) :
           h[i].role = (IF i % 2 = 1 THEN "human" ELSE "ai")
      /\ \A i \in 1..(Len(h) \div 2) :
           \E c \in DoneWith(l) :
             /\ h[2 * i - 1] = HumanMessage(question[c])
             /\ h[2 * i] = AIMessage(full_answer[c])

\* One call completed and another is suspended at a yield with part of its
\* answer, on the same session: the history is the completed Turn alone.
C6_Witness ==
  \E c, d \in Calls :
    /\ pc[c] = "done" /\ pc[d] = "yielded" /\ full_answer[d] # ""
    /\ chat_history[c] = chat_history[d]
    /\ question[c] # question[d]
    /\ History(session_id[d]) =
         <<HumanMessage(question[c]), AIMessage(full_answer[c])>>

\* C7: under any sequence of ingest_pdf calls, overlapping ones included, the
\* collection holds chunks of at most one document.
C7_AtMostOneDocument == Cardinality(DocsIn(collection)) <= 1

\* The history a reader of s sees in the store sh.
HistoryIn(sh, s) == IF s \in DOMAIN sh THEN lists[sh[s]] ELSE <<>>

\* C8: clear_session never raises; after it a read of s sees no Turn and the
\* other sessions are as before; on an absent session it leaves the store
\* unchanged; and clearing twice leaves the store a single clear leaves.
C8_ClearIdempotentTotal ==
  \A s \in Sessions :
    LET once == clear_session(session_histories, s)
        twice == clear_session(once.store, s)
    IN /\ once.raised = None /\ twice.raised = None
       /\ HistoryIn(once.store, s) = <<>>
       /\ DOMAIN once.store = DOMAIN session_histories \ {s}
       /\ \A x \in DOMAIN once.store : once.store[x] = session_histories[x]
       /\ s \notin DOMAIN session_histories => once.store = session_histories
       /\ twice.store = once.store

\* A session was cleared after a call had put a Turn in its list: the call's
\* list still holds the Turn, and a read of the session sees none.
C8_Witness ==
  \E c \in Calls :
    /\ pc[c] = "done" /\ Len(lists[chat_history[c]]) = 2
    /\ session_id[c] \notin DOMAIN session_histories
    /\ History(session_id[c]) = <<>>

\* C9: calls handled one after the other on a session that starts unseen
\* leave its history equal to the Turns of the successful calls, in call
\* order.
C9_SequentialTurnsInCallOrder ==
  \A s \in Sessions : History(s) = TurnsUpTo(s, MaxCalls)

\* Two successful calls in a row on one session, with different questions
\* and answers.
C9_Witness ==
  /\ pc[1] = "done" /\ pc[2] = "done"
  /\ session_id[1] = session_id[2]
  /\ question[1] # question[2] /\ full_answer[1] # full_answer[2]
  /\ Len(History(session_id[1])) = 4

\* C10: for calls handled one after the other, the prompt a call hands to the
\* model is the system message, then the Turns committed by the earlier
\* calls on its session (and no others) in order, then its own question.
C10_PromptIsPriorTurnsThenQuestion ==
  \A c \in Calls :
    prompt[c] # <<>> =>
      prompt[c] =
        <<SystemMessage(SystemText \o context[c])>>
        \o TurnsUpTo(session_id[c], c - 1)
        \o <<HumanMessage(question[c])>>

\* The second call's prompt carries the first call's Turn.
C10_Witness ==
  /\ pc[1] = "done" /\ pc[2] = "generating"
  /\ session_id[1] = session_id[2]
  /\ Len(prompt[2]) = 4
  /\ prompt[2][2] = HumanMessage(question[1])
  /\ prompt[2][3] = AIMessage(full_answer[1])

\* The fragments a /chat/stream response has carried so far, in order.
FragmentOf(e) == CHOOSE tk \in Tokens \ {""} : TokenEvent(tk) = e
IsTokenEvent(e) == e \in TokenEvents
Yielded(c) ==
  LET sent == SelectSeq(events[c], IsTokenEvent)
  IN  [i \in 1..Len(sent) |-> FragmentOf(sent[i])]
NonEmpty(tk) == tk # ""

\* C11: with a model that is a function of its prompt, a chat call and a
\* chat_stream call that completed on the same prompt (same history read,
\* same chunks retrieved, same question) agree: the fragments chat_stream
\* yielded, concatenated, are the answer chat returned; both appended the
\* same Turn; and where nothing else was appended to the two lists, the two
\* histories are equal.
C11_StreamEqualsChat ==
  \A c, d \in Calls :
    (/\ kind[c] = "chat" /\ pc[c] = "done"
     /\ kind[d] = "chat_stream" /\ pc[d] = "done"
     /\ prompt[c] = prompt[d])
    => /\ Concat(Yielded(d)) = full_answer[c]
       /\ TurnsAt(lists[chat_history[c]], question[c], full_answer[c]) # {}
       /\ TurnsAt(lists[chat_history[d]], question[c], full_answer[c]) # {}
       /\ (DoneWith(chat_history[c]) = {c} /\ DoneWith(chat_history[d]) = {d})
            => lists[chat_history[c]] = lists[chat_history[d]]

C11_Witness ==
  \E c, d \in Calls :
    /\ kind[c] = "chat" /\ pc[c] = "done"
    /\ kind[d] = "chat_stream" /\ pc[d] = "done"
    /\ prompt[c] = prompt[d]
    /\ reply[d] = <<"a", "b">>
    /\ Yielded(d) = <<"a", "b">>
    /\ full_answer[c] = "ab"
    /\ chat_history[c] # chat_history[d]
    /\ lists[chat_history[c]] = lists[chat_history[d]]

\* The non-empty chunks among the first n the model sent to call c.
Forwardable(c, n) == SelectSeq(SubSeq(reply[c], 1, n), NonEmpty)

C15_ForwardedSoFar ==
  \A c \in StreamCalls :
    /\ Yielded(c) = Forwardable(c, pos[c] - 1)
    /\ pc[c] = "yielded" =>
         /\ reply[c][pos[c] - 1] # ""
         /\ events[c][Len(events[c])] = TokenEvent(reply[c][pos[c] - 1])
    /\ pc[c] = "done" =>
         /\ Yielded(c) = SelectSeq(reply[c], NonEmpty)
         /\ full_answer[c] = Concat(Yielded(c))
         /\ TurnsAt(lists[chat_history[c]], question[c],
                    Concat(Yielded(c))) # {}

C15_ChunkTakenOnlyWhenResumed ==
  \A c \in StreamCalls :
    pos'[c] # pos[c] =>
      /\ pc[c] = "generating"
      /\ pos'[c] = pos[c] + 1
      /\ reply[c][pos[c]] # "" =>
           /\ pc'[c] = "yielded"
           /\ events'[c] = Append(events[c], TokenEvent(reply[c][pos[c]]))

\* C15: chat_stream forwards the model's non-empty chunks in the order they
\* were generated: what has been yielded is always the non-empty chunks among
\* those taken so far, none reordered, repeated or dropped; a chunk is taken
\* only while the generator is not suspended at a yield, and a non-empty one
\* is yielded in the step that takes it; and on clean completion the answer
\* stored in the Turn is the concatenation, in order, of what was yielded.
C15_FragmentsInOrder ==
  []C15_ForwardedSoFar /\ [][C15_ChunkTakenOnlyWhenResumed]_vars

C15_Witness ==
  \E c \in StreamCalls :
    /\ pc[c] = "done"
    /\ reply[c] = <<"b", "a">>
    /\ Yielded(c) = <<"b", "a">>
    /\ TurnsAt(lists[chat_history[c]], question[c], "ba") # {}

\* A started call whose list is no longer the one the store holds for its
\* session: clear_session ran on the session after the call read its history.
Detached(c) ==
  /\ pc[c] # "idle"
  /\ \/ session_id[c] \notin DOMAIN session_histories
     \/ session_histories[session_id[c]] # chat_history[c]

C17_OnlyCurrentListVisible ==
  \A s \in DOMAIN session_histories :
    LET h == History(s)
    IN  /\ Len(h) = 2 * Cardinality(DoneWith(session_histories[s]))
        /\ \A i \in 1..(Len(h) \div 2) :
             \E c \in DoneWith(session_histories[s]) :
               /\ ~Detached(c)
               /\ i \in TurnsAt(h, question[c], full_answer[c])

C17_DetachedStaysInvisible ==
  \A c \in Calls :
    Detached(c) =>
      /\ Detached(c)'
      /\ pc'[c] # pc[c] =>
           /\ \A s \in Sessions : History(s)' = History(s)
           /\ pc'[c] = "done" =>
                lists'[chat_history[c]] =
                  lists[chat_history[c]] \o
                    TurnMessages(question[c], full_answer'[c])

\* C17: a call that read the history of s before clear_session(s) ran never
\* makes a Turn visible in the history of s: it stays attached to the list
\* the clear removed, its steps change no session's history, and its Turn
\* goes to that removed list; the history of s holds only the Turns of the
\* calls that hold the list created after the clear.
C17_ClearedCallsStayInvisible ==
  []C17_OnlyCurrentListVisible /\ [][C17_DetachedStaysInvisible]_vars

C17_Witness ==
  \E c, d \in Calls :
    /\ pc[c] = "done" /\ pc[d] = "done"
    /\ session_id[c] = session_id[d]
    /\ Detached(c) /\ ~Detached(d)
    /\ c < d
    /\ lists[chat_history[c]] = TurnMessages(question[c], full_answer[c])
    /\ History(session_id[d]) = TurnMessages(question[d], full_answer[d])
    /\ question[c] # question[d]

\* Call c took a step; clear_session removed the entry of s.
Stepped(c) == pc'[c] # pc[c] \/ pos'[c] # pos[c]
Cleared(s) ==
  s \in DOMAIN session_histories /\ s \notin DOMAIN session_histories'
SameFor(s) ==
  /\ History(s)' = History(s)
  /\ (s \in DOMAIN session_histories') = (s \in DOMAIN session_histories)

C18_OtherSessionsUntouched ==
  \A s \in Sessions :
    /\ \A c \in Calls : (Stepped(c) /\ session_id'[c] # s) => SameFor(s)
    /\ \A x \in Sessions \ {s} : Cleared(x) => SameFor(s)
    /\ ~SameFor(s) => \/ Cleared(s)
                      \/ \E c \in Calls : Stepped(c) /\ session_id'[c] = s

\* C18: sessions are isolated: a step of a chat or chat_stream call on s
\* (starting, retrieving, generating, completing, failing or being
\* cancelled) and a clear_session(s) leave the Turn sequence and the
\* presence of every other session as they were; a session's history changes
\* only by a call on it or a clear of it.
C18_SessionsIsolated == [][C18_OtherSessionsUntouched]_vars

C18_Witness ==
  \E c, d \in Calls :
    /\ session_id[c] = "s1" /\ pc[c] = "done"
    /\ "s1" \notin DOMAIN session_histories
    /\ session_id[d] = "s2" /\ pc[d] = "done"
    /\ History("s2") = TurnMessages(question[d], full_answer[d])

\* Upload request n has saved its file and its handler has not returned.
InProgress(n) == \E i \in Ingests : ipath[i] = n /\ ipc[i] = "adding"

\* C12: no temp file outlives its /ingest request: whatever the outcome
\* (rejection of the upload, indexing success, indexing failure, cancellation
\* while indexing is awaited), the file of a request that has ended is not in
\* the upload directory; the files there belong to requests still running.
C12_NoTempFileOutlivesRequest ==
  /\ files \subseteq 1..nreq
  /\ \A n \in 1..nreq : ~InProgress(n) => n \notin files

C12_Witness ==
  /\ files = {}
  /\ last.endpoint = "ingest" /\ last.raised = 400 /\ last.key = API_KEY
  /\ \E i, j \in Ingests :
       /\ ipc[i] = "done"
       /\ ipc[j] = "cancelled" /\ iadded[j] > 0

\* C13: a request to /chat, /chat/stream or DELETE /session/{id} that is
\* rejected with 429 by the limiter, or with 400 for a blank question or
\* session_id, changes nothing in the Conversation Store: no entry created
\* or removed, no list changed, no call started.
C13_RejectionLeavesStore ==
  (/\ nreq' # nreq
   /\ last'.endpoint \in {"chat", "chat_stream", "delete_session"}
   /\ last'.raised \in {429, 400})
  => /\ session_histories' = session_histories
     /\ lists' = lists
     /\ pc' = pc

C13_RejectedRequestsMutateNothing == [][C13_RejectionLeavesStore]_vars

C13_Witness ==
  /\ last.endpoint = "delete_session" /\ last.raised = 429
  /\ \E s \in DOMAIN session_histories : History(s) # <<>>

\* C14: on every protected endpoint a request that sends no API key is
\* rejected with 401 and one whose key differs from the configured secret
\* with 403, and such a request leaves everything as it was: no session
\* created, no call started, no file saved, the collection not touched, the
\* limiter not counted.
C14_Rejection ==
  nreq' # nreq =>
    /\ last'.key \in {None, ""} => last'.raised = 401
    /\ last'.key \notin {None, "", API_KEY} => last'.raised = 403
    /\ last'.raised \in {401, 403} =>
         UNCHANGED <<chatVars, indexVars, files, ipath, hits>>

C14_UnauthenticatedNeverHandled == [][C14_Rejection]_vars

C14_Witness ==
  /\ last.endpoint = "ingest" /\ last.raised = 403 /\ last.key = "guess"
  /\ files # {}
  /\ DOMAIN session_histories # {}

RECURSIVE SumOver(_, _)
SumOver(f, S) ==
  IF S = {} THEN 0
  ELSE LET x == CHOOSE y \in S : TRUE IN f[x] + SumOver(f, S \ {x})

\* The requests the limiter let through to endpoint ep in this window; each
\* of them was authenticated with the one configured API key.
Admitted(ep) ==
  SumOver([rk \in RateKeys |-> Min(hits[<<ep, rk>>], Limit(ep))], RateKeys)

\* C16: rate limiting is per API key: the requests authenticated with the
\* same API key count against one bucket of an endpoint, so within a window
\* no more of them than the endpoint's limit (5, 30 or 20) are admitted,
\* whatever else the requests carry.
C16_OneKeyOneBucket ==
  \A ep \in Endpoints : Admitted(ep) <= Limit(ep)
====
